---- MODULE Spec2Model ----
(***************************************************************************)
(* A model of the CHIP-8 interpreter of src/src/virtual_machine.rs: the    *)
(* VirtualMachine state, execute_opcode with every routine it dispatches   *)
(* to, the 60 Hz timer ticker thread started by VirtualMachine::new, the   *)
(* per-frame timer tick, the key events and the driver loop of             *)
(* src/src/main.rs, a renderer that copies the canvas under its lock and   *)
(* an input thread that writes the key latch under its lock.               *)
(*                                                                         *)
(* Every behaviour starts from VirtualMachine::new on a ROM; the ROMs of a *)
(* specification are its inputs.  A panic of the execution thread is kept  *)
(* in the variable fault: a faulted machine executes nothing more.         *)
(***************************************************************************)
EXTENDS Integers, Sequences, FiniteSets, TLC

\* ------------------------------------------------------------------------
\* Program constants
\* ------------------------------------------------------------------------
WIDTH == 64
HEIGHT == 32
MEMORY_SIZE == 4096
STACK_CAPACITY == 100
ROM_BASE == 512
FONT_BASE == 80
REFRESH_RATE == 60
CLOCK_HZ == 1000

\* ------------------------------------------------------------------------
\* Bounds of the model
\* ------------------------------------------------------------------------
\* cycles the driver runs in the arithmetic, draw, sound and key scenarios
MaxCycles == 3
\* cycles the driver runs in the draw scenarios
MaxDrawCycles == 8
\* cycles the driver runs in the render scenarios
MaxRenderCycles == 6
\* cycles the driver runs in the timer scenarios
MaxTimerCycles == 5
\* cycles the driver runs in the stack scenarios (past the stack capacity)
MaxStackCycles == 104
\* iterations of the timer ticker loop
MaxTicks == 4
\* key events delivered by the input loop
MaxKeyEvents == 2
\* frames read by the renderer
MaxFrames == 2
\* cycles the driver runs in the register transfer scenarios
MaxTransferCycles == 9
\* cycles the driver runs in the decimal digit scenarios
MaxBcdCycles == 3
\* cycles the driver runs in the register write scenarios
MaxWriteCycles == 4
\* cycles the driver runs in the opcode decoding scenarios
MaxDecodeCycles == 2
\* cycles the driver runs in the key latch scenarios
MaxLatchCycles == 4
\* cycles the driver runs in the conditional skip scenarios
MaxSkipCycles == 4
\* frames of the driver loop that are counted, one more than the frames of
\* a second; the loop goes on past them
MaxDriverFrames == 61
\* cycles the driver runs in the driver scenarios
MaxDriverCycles == 12

VARIABLES
    memory,               \* [u8; 0x1000], as the map of its nonzero cells
    registers,            \* [u8; 16]
    stack,                \* [u16; 100]
    stack_size,           \* u8
    i,                    \* u16
    pc,                   \* u16
    delay_timer,          \* AtomicU8
    sound_timer,          \* AtomicU8
    pressed_key,          \* Mutex<Option<u8>>
    should_increment_pc,  \* bool
    canvas,               \* Mutex<[[CanvasColor; WIDTH]; HEIGHT]>, as the set of its Black cells
    canvas_poisoned,      \* the canvas mutex was held by a thread that panicked
    overflow_checks,      \* build profile: arithmetic overflow panics (debug) or wraps (release)
    fault,                \* "none", or the panic that ended the execution thread
    cycles,               \* execute_opcode calls made by the driver so far
    executed,             \* the opcode word <<byte1, byte2>> the latest cycle fetched
    before,               \* the canvas, registers and index the latest cycle began with
    canvas_lock,          \* who holds the canvas mutex: "free", "exec" or "render"
    blit,                 \* where the execution thread is inside draw, clear_canvas or
                          \* the key wait, the routines that work under a lock
    stable_canvas,        \* the canvas as the latest completed draw or clear left it
    render_pc,            \* the renderer: "idle", "locked" or "panicked"
    frame,                \* the renderer's latest copy of the canvas
    frames,               \* copies the renderer has taken
    ticker_pc,            \* the timer ticker: its next step; "absent" when the main loop ticks
    ticker_value,         \* the ticker's local sound_value / delay_value
    ticks,                \* iterations of the ticker so far
    timer_log,            \* per timer: the value the CPU last stored, the decrements since,
                          \* and whether the store fell between a load and a store of the ticker
    key_events,           \* key events the input loop has delivered
    frequency,            \* the instruction rate the driver was started with
    frame_start,          \* the value of cycles when the driver's current frame began
    driver_pc             \* the driver loop: at its "top", or in the "cycles" of a frame

machineVars == <<memory, registers, stack, stack_size, i, pc, delay_timer, sound_timer,
                 pressed_key, should_increment_pc, canvas, canvas_poisoned,
                 overflow_checks, fault>>
cycleVars == <<cycles, executed, before>>
blitVars == <<canvas_lock, blit, stable_canvas>>
renderVars == <<render_pc, frame, frames>>

tickerVars == <<ticker_pc, ticker_value, ticks>>
driverVars == <<frequency, frame_start, driver_pc>>

vars == <<machineVars, cycleVars, blitVars, renderVars, tickerVars, timer_log, key_events, driverVars>>

Byte == 0..255
\* Option<u8>: None, or Some(code)
None == <<>>
Some(code) == <<code>>
Unwrap(option) == option[1]

\* ------------------------------------------------------------------------
\* u8 bit operations
\* ------------------------------------------------------------------------
RECURSIVE BitAnd(_, _)
BitAnd(a, b) ==
    IF a = 0 \/ b = 0 THEN 0
    ELSE (a % 2) * (b % 2) + 2 * BitAnd(a \div 2, b \div 2)

RECURSIVE BitOr(_, _)
BitOr(a, b) ==
    IF a = 0 THEN b
    ELSE IF b = 0 THEN a
    ELSE (IF a % 2 = 1 \/ b % 2 = 1 THEN 1 ELSE 0) + 2 * BitOr(a \div 2, b \div 2)

RECURSIVE BitXor(_, _)
BitXor(a, b) ==
    IF a = 0 THEN b
    ELSE IF b = 0 THEN a
    ELSE ((a + b) % 2) + 2 * BitXor(a \div 2, b \div 2)

\* u8::overflowing_add: the wrapped sum and whether it overflowed
overflowing_add(a, b) == [result |-> (a + b) % 256, flag |-> a + b > 255]

\* u8::overflowing_sub: the wrapped difference and whether it borrowed
overflowing_sub(a, b) == [result |-> (a - b + 256) % 256, flag |-> a < b]

BoolAsU8(b) == IF b THEN 1 ELSE 0

\* ------------------------------------------------------------------------
\* The font table loaded at 0x50 (characters::CHARS)
\* ------------------------------------------------------------------------
CHARS ==
    << 240, 144, 144, 144, 240,    32,  96,  32,  32, 112,
       240,  16, 240, 128, 240,   240,  16, 240,  16, 240,
       144, 144, 240,  16,  16,   240, 128, 240,  16, 240,
       240, 128, 240, 144, 240,   240,  16,  32,  64,  64,
       240, 144, 240, 144, 240,   240, 144, 240,  16, 240,
       240, 144, 240, 144, 144,   224, 144, 224, 144, 224,
       240, 128, 128, 128, 240,   224, 144, 144, 144, 224,
       240, 128, 240, 128, 240,   240, 128, 240, 128, 128 >>

\* ------------------------------------------------------------------------
\* VirtualMachine::new
\* ------------------------------------------------------------------------
\* the machine as a record, the form the routines below work on
Self ==
    [ memory |-> memory, registers |-> registers, stack |-> stack,
      stack_size |-> stack_size, i |-> i, pc |-> pc,
      delay_timer |-> delay_timer, sound_timer |-> sound_timer,
      pressed_key |-> pressed_key, should_increment_pc |-> should_increment_pc,
      canvas |-> canvas, canvas_poisoned |-> canvas_poisoned,
      overflow_checks |-> overflow_checks, fault |-> fault ]

\* The memory array is kept as the function from the addresses that hold a
\* nonzero byte to that byte: every other address of 0..0xFFF holds 0.
\* The canvas is kept as the set of the cells <<row, col>> that are Black:
\* every other cell of the HEIGHT x WIDTH grid is White.
MemoryAt(mem, address) == IF address \in DOMAIN mem THEN mem[address] ELSE 0

Store(mem, address, byte) ==
    IF byte = 0 THEN [a \in DOMAIN mem \ {address} |-> mem[a]]
    ELSE [a \in DOMAIN mem \cup {address} |-> IF a = address THEN byte ELSE mem[a]]

\* memory[base..base + bytes.len()].copy_from_slice(bytes): taking the range
\* panics when its end is past the array, and then nothing is copied
copy_from_slice(mem, base, bytes) ==
    LET range == base..(base + Len(bytes) - 1)
        value(a) == IF a \in range THEN bytes[a - base + 1] ELSE mem[a]
    IN IF base + Len(bytes) > MEMORY_SIZE
       THEN [panicked |-> TRUE, memory |-> mem]
       ELSE [panicked |-> FALSE,
             memory |-> [a \in {b \in DOMAIN mem \cup range : value(b) # 0} |-> value(a)]]

ZeroMemory == [a \in {} |-> 0]
BlankCanvas == {}

\* what std::fs::read(path) gives for a path that cannot be read (an Err);
\* for any other path it gives the bytes of the file
Unreadable == <<-1>>

\* VirtualMachine::new up to the spawn of the ticker thread. A panic of the
\* constructor (unwrap of the Err, range past the memory) leaves no machine
\* to run: it is kept as a machine that is faulted from the start.
new(file, checks) ==
    LET rom == IF file = Unreadable THEN <<>> ELSE file
        loaded == copy_from_slice(ZeroMemory, ROM_BASE, rom)
        fonts == copy_from_slice(loaded.memory, FONT_BASE, CHARS)
    IN [ memory |-> IF loaded.panicked THEN ZeroMemory ELSE fonts.memory,
         registers |-> [r \in 0..15 |-> 0],
         stack |-> [s \in 0..(STACK_CAPACITY - 1) |-> 0],
         stack_size |-> 0,
         i |-> ROM_BASE,
         pc |-> ROM_BASE,
         delay_timer |-> 0,
         sound_timer |-> 0,
         pressed_key |-> None,
         should_increment_pc |-> FALSE,
         canvas |-> BlankCanvas,
         canvas_poisoned |-> FALSE,
         overflow_checks |-> checks,
         fault |-> IF file = Unreadable THEN "unwrap_on_err"
                   ELSE IF loaded.panicked THEN "range_end_out_of_range"
                   ELSE "none" ]

\* ------------------------------------------------------------------------
\* Accessors
\* ------------------------------------------------------------------------
\* an index the memory array has; any other index panics
InMemory(address) == address >= 0 /\ address < MEMORY_SIZE

get_memory(self, address) == MemoryAt(self.memory, address)

set_memory(self, address, byte) ==
    IF InMemory(address) THEN [self EXCEPT !.memory = Store(self.memory, address, byte)]
    ELSE [self EXCEPT !.fault = "index_out_of_bounds"]

get_register(self, register) == self.registers[register]

set_register(self, register, byte) == [self EXCEPT !.registers[register] = byte]

set_flag(self, flag) == [self EXCEPT !.registers[15] = flag]

\* a u16 sum: panics when overflow checks are on and the sum does not fit
AddU16(self, a, b) ==
    IF a + b <= 65535 THEN [value |-> a + b, overflow |-> FALSE]
    ELSE [value |-> (a + b) % 65536, overflow |-> self.overflow_checks]

\* a u8 sum: panics when overflow checks are on and the sum does not fit
AddU8(self, a, b) ==
    IF a + b <= 255 THEN [value |-> a + b, overflow |-> FALSE]
    ELSE [value |-> (a + b) % 256, overflow |-> self.overflow_checks]

\* ------------------------------------------------------------------------
\* Control flow
\* ------------------------------------------------------------------------
inc_pc(self) ==
    LET sum == AddU16(self, self.pc, 2) IN
    IF sum.overflow THEN [self EXCEPT !.fault = "arithmetic_overflow"]
    ELSE [self EXCEPT !.pc = sum.value]

\* a call that checks the depth one slot late
call_off_by_one(self, address) ==
    LET m == inc_pc(self) IN
    IF m.fault # "none" THEN m
    ELSE IF m.stack_size > STACK_CAPACITY THEN [m EXCEPT !.fault = "index_out_of_bounds"]
    ELSE [m EXCEPT !.stack = [s \in DOMAIN m.stack \cup {m.stack_size} |->
                                IF s = m.stack_size THEN m.pc ELSE m.stack[s]],
                   !.stack_size = m.stack_size + 1,
                   !.pc = address,
                   !.should_increment_pc = FALSE]

call(self, address) ==
    LET m == inc_pc(self) IN
    IF m.fault # "none" THEN m
    ELSE IF m.stack_size >= STACK_CAPACITY THEN [m EXCEPT !.fault = "index_out_of_bounds"]
    ELSE [m EXCEPT !.stack[m.stack_size] = m.pc,
                   !.stack_size = m.stack_size + 1,
                   !.pc = address,
                   !.should_increment_pc = FALSE]

\* a return that leaves the increment of pc to the end of the cycle
_return_then_advance(self) ==
    IF ~(self.stack_size >= 1) THEN [self EXCEPT !.fault = "assertion_failed"]
    ELSE [self EXCEPT !.stack_size = self.stack_size - 1,
                      !.pc = self.stack[self.stack_size - 1]]

_return(self) ==
    IF ~(self.stack_size >= 1) THEN [self EXCEPT !.fault = "assertion_failed"]
    ELSE [self EXCEPT !.stack_size = self.stack_size - 1,
                      !.pc = self.stack[self.stack_size - 1],
                      !.should_increment_pc = FALSE]

jump_to(self, address) == [self EXCEPT !.pc = address, !.should_increment_pc = FALSE]

skip_if_byte(self, register, byte, relation) ==
    LET value == get_register(self, register)
        condition == IF relation = "Equal" THEN value = byte ELSE value # byte
    IN IF condition THEN inc_pc(self) ELSE self

skip_if_register(self, register1, register2, relation) ==
    LET value1 == get_register(self, register1)
        value2 == get_register(self, register2)
        condition == IF relation = "Equal" THEN value1 = value2 ELSE value1 # value2
    IN IF condition THEN inc_pc(self) ELSE self

\* a skip on the key that takes the key out of the latch when it skips
skip_if_key_consuming(self, register, relation) ==
    LET value == get_register(self, register)
        key == self.pressed_key
        condition == IF relation = "Equal" THEN key # None /\ Unwrap(key) = value
                     ELSE key = None \/ (key # None /\ Unwrap(key) # value)
    IN IF condition THEN inc_pc([self EXCEPT !.pressed_key = None]) ELSE self

skip_if_key(self, register, relation) ==
    LET value == get_register(self, register)
        key == self.pressed_key
        condition == IF relation = "Equal" THEN key # None /\ Unwrap(key) = value
                     ELSE key = None \/ (key # None /\ Unwrap(key) # value)
    IN IF condition THEN inc_pc(self) ELSE self

\* an add of an immediate that reports its carry in register 15
add_byte_with_carry(self, register, byte) ==
    LET value == get_register(self, register)
    IN set_register(set_flag(self, BoolAsU8(value + byte > 255)),
                    register, (value + byte) % 256)

add_byte(self, register, byte) ==
    LET value == get_register(self, register)
    IN set_register(self, register, (value + byte) % 256)

\* ------------------------------------------------------------------------
\* Memory transfer
\* ------------------------------------------------------------------------
RECURSIVE dump_from(_, _, _)
dump_from(self, register, index) ==
    IF index > register \/ self.fault # "none" THEN self
    ELSE dump_from(set_memory(self, self.i + index, get_register(self, index)),
                   register, index + 1)

\* a dump of the half-open range 0..register
dump_registers_exclusive(self, register) == dump_from(self, register - 1, 0)

dump_registers(self, register) == dump_from(self, register, 0)

RECURSIVE load_from(_, _, _)
load_from(self, register, index) ==
    IF index > register \/ self.fault # "none" THEN self
    ELSE IF ~InMemory(self.i + index) THEN [self EXCEPT !.fault = "index_out_of_bounds"]
    ELSE load_from(set_register(self, index, get_memory(self, self.i + index)),
                   register, index + 1)

load_registers(self, register) == load_from(self, register, 0)

\* a decimal digit store with the units first
set_bcd_units_first(self, register) ==
    LET value == get_register(self, register)
        units == value % 10
        tens == (value \div 10) % 10
        hundreds == (value \div 10) \div 10
        m1 == set_memory(self, self.i, units)
        m2 == IF m1.fault # "none" THEN m1 ELSE set_memory(m1, self.i + 1, tens)
    IN IF m2.fault # "none" THEN m2 ELSE set_memory(m2, self.i + 2, hundreds)

set_bcd(self, register) ==
    LET value == get_register(self, register)
        units == value % 10
        tens == (value \div 10) % 10
        hundreds == (value \div 10) \div 10
        m1 == set_memory(self, self.i, hundreds)
        m2 == IF m1.fault # "none" THEN m1 ELSE set_memory(m1, self.i + 1, tens)
    IN IF m2.fault # "none" THEN m2 ELSE set_memory(m2, self.i + 2, units)

\* ------------------------------------------------------------------------
\* Arithmetic and logic
\* ------------------------------------------------------------------------
\* the arms of execute_math that set the flag: the result and the flag
math_add_swapped_flag(value_x, value_y) ==
    LET r == overflowing_add(value_x, value_y)
    IN [result |-> r.result, flag |-> BoolAsU8(~r.flag)]

math_add(value_x, value_y) ==
    LET r == overflowing_add(value_x, value_y)
    IN [result |-> r.result, flag |-> BoolAsU8(r.flag)]

math_sub_strict(value_x, value_y) ==
    LET r == overflowing_sub(value_x, value_y)
    IN [result |-> r.result, flag |-> BoolAsU8(value_x > value_y)]

math_sub(value_x, value_y) ==
    LET r == overflowing_sub(value_x, value_y)
    IN [result |-> r.result, flag |-> BoolAsU8(~r.flag)]

math_shr_of_y(value_x, value_y) ==
    [result |-> value_y \div 2, flag |-> BitAnd(value_y, 1)]

math_shr(value_x, value_y) ==
    [result |-> value_x \div 2, flag |-> BitAnd(value_x, 1)]

math_subn(value_x, value_y) ==
    LET r == overflowing_sub(value_y, value_x)
    IN [result |-> r.result, flag |-> BoolAsU8(~r.flag)]

math_shl(value_x, value_y) ==
    [result |-> (value_x * 2) % 256, flag |-> value_x \div 128]

\* the flag is set inside the arm, the result is stored after the match
SetFlagThenRegister(self, register_x, r) ==
    set_register(set_flag(self, r.flag), register_x, r.result)

execute_math(self, operation, register_x, register_y) ==
    LET value_x == get_register(self, register_x)
        value_y == get_register(self, register_y)
    IN CASE operation = 0 -> set_register(self, register_x, value_y)
         [] operation = 1 -> set_register(self, register_x, BitOr(value_x, value_y))
         [] operation = 2 -> set_register(self, register_x, BitAnd(value_x, value_y))
         [] operation = 3 -> set_register(self, register_x, BitXor(value_x, value_y))
         [] operation = 4 -> SetFlagThenRegister(self, register_x, math_add(value_x, value_y))
         [] operation = 5 -> SetFlagThenRegister(self, register_x, math_sub(value_x, value_y))
         [] operation = 6 -> SetFlagThenRegister(self, register_x, math_shr(value_x, value_y))
         [] operation = 7 -> SetFlagThenRegister(self, register_x, math_subn(value_x, value_y))
         [] operation = 14 -> SetFlagThenRegister(self, register_x, math_shl(value_x, value_y))
         [] OTHER -> [self EXCEPT !.fault = "explicit_panic"]

\* ------------------------------------------------------------------------
\* The canvas
\* ------------------------------------------------------------------------
CanvasColor(cv, row, col) == IF <<row, col>> \in cv THEN "Black" ELSE "White"

\* a change that paints the cell Black instead of flipping it
change_paints(cv, row, col) ==
    [canvas |-> cv \cup {<<row, col>>}, result |-> CanvasColor(cv, row, col) = "Black"]

\* CanvasColor::change on the cell <<row, col>>: the canvas with the cell
\* flipped, and whether the cell was Black
change(cv, row, col) ==
    IF CanvasColor(cv, row, col) = "White"
    THEN [canvas |-> cv \cup {<<row, col>>}, result |-> FALSE]
    ELSE [canvas |-> cv \ {<<row, col>>}, result |-> TRUE]

\* row.fill(CanvasColor::White) on one row of the locked canvas
fill_row(cv, row) == cv \ ({row} \X (0..(WIDTH - 1)))

RECURSIVE fill_rows(_, _)
fill_rows(cv, row) ==
    IF row >= HEIGHT THEN cv ELSE fill_rows(fill_row(cv, row), row + 1)

\* clear_canvas: every row filled with White, under the canvas lock
clear_canvas(self) ==
    IF self.canvas_poisoned THEN [self EXCEPT !.fault = "poisoned_lock"]
    ELSE [self EXCEPT !.canvas = fill_rows(self.canvas, 0)]

\* the body of the inner loop of draw for one dx; st is the locked canvas,
\* the collision found so far and the panic raised, if any
draw_pixel(self, st, x, y, dy, dx, byte) ==
    LET pixel == (byte \div (2 ^ (7 - dx))) % 2 = 1
        row == AddU8(self, y, dy)
        col == AddU8(self, x, dx)
    IN IF st.fault # "none" \/ ~pixel THEN st
       ELSE IF row.overflow \/ col.overflow THEN [st EXCEPT !.fault = "arithmetic_overflow"]
       ELSE LET r == row.value % HEIGHT
                c == col.value % WIDTH
                ch == change(st.canvas, r, c)
            IN [st EXCEPT !.canvas = ch.canvas,
                          !.collision = st.collision \/ ch.result]

RECURSIVE draw_pixels(_, _, _, _, _, _, _)
draw_pixels(self, st, x, y, dy, dx, byte) ==
    IF dx >= 8 THEN st
    ELSE draw_pixels(self, draw_pixel(self, st, x, y, dy, dx, byte), x, y, dy, dx + 1, byte)

\* the body of the outer loop of draw for one dy
draw_row(self, st, x, y, dy) ==
    LET addr == AddU16(self, self.i, dy)
    IN IF st.fault # "none" THEN st
       ELSE IF addr.overflow THEN [st EXCEPT !.fault = "arithmetic_overflow"]
       ELSE IF ~InMemory(addr.value) THEN [st EXCEPT !.fault = "index_out_of_bounds"]
       ELSE draw_pixels(self, st, x, y, dy, 0, get_memory(self, addr.value))

RECURSIVE draw_rows(_, _, _, _, _, _)
draw_rows(self, st, x, y, height, dy) ==
    IF dy >= height THEN st
    ELSE draw_rows(self, draw_row(self, st, x, y, dy), x, y, height, dy + 1)

\* the end of draw: the lock is dropped and the flag set, or the panic
\* unwinds through the guard and poisons the lock
draw_finish(self, st) ==
    IF st.fault # "none"
    THEN [self EXCEPT !.canvas = st.canvas, !.fault = st.fault, !.canvas_poisoned = TRUE]
    ELSE set_flag([self EXCEPT !.canvas = st.canvas], BoolAsU8(st.collision))

draw(self, x, y, height) ==
    IF self.canvas_poisoned THEN [self EXCEPT !.fault = "poisoned_lock"]
    ELSE draw_finish(self,
            draw_rows(self, [canvas |-> self.canvas, collision |-> FALSE, fault |-> "none"],
                      x, y, height, 0))

\* ------------------------------------------------------------------------
\* execute_opcode
\* ------------------------------------------------------------------------
\* opcode FX0A: the latch is read and cleared under its lock
key_wait(self, register_x) ==
    LET value == self.pressed_key
        m == [self EXCEPT !.pressed_key = None]
    IN IF value # None THEN set_register(m, register_x, Unwrap(value)) ELSE m

\* opcode FX15
set_delay_timer(self, register_x) ==
    [self EXCEPT !.delay_timer = get_register(self, register_x)]

\* opcode FX18
set_sound_timer(self, register_x) ==
    [self EXCEPT !.sound_timer = get_register(self, register_x)]

\* opcode FX1E
add_to_index(self, register_x) ==
    LET sum == AddU16(self, self.i, get_register(self, register_x))
    IN IF sum.overflow THEN [self EXCEPT !.fault = "arithmetic_overflow"]
       ELSE [self EXCEPT !.i = sum.value]

\* the opcode word at pc, when both its bytes are in memory
Fetch(self) == <<get_memory(self, self.pc), get_memory(self, self.pc + 1)>>

\* the match of execute_opcode on the fetched bytes
dispatch(self, byte1, byte2, random_byte) ==
    LET address == (byte1 % 16) * 256 + byte2
        register_x == byte1 % 16
        register_y == byte2 \div 16
        last_nibble == byte2 % 16
        class == byte1 \div 16
    IN CASE class = 0 ->
              IF byte2 = 224 THEN clear_canvas(self)
              ELSE IF byte2 = 238 THEN _return(self)
              ELSE call(self, address)
         [] class = 1 -> jump_to(self, address)
         [] class = 2 -> call(self, address)
         [] class = 3 -> skip_if_byte(self, register_x, byte2, "Equal")
         [] class = 4 -> skip_if_byte(self, register_x, byte2, "NotEqual")
         [] class = 5 ->
              IF last_nibble # 0 THEN [self EXCEPT !.fault = "assertion_failed"]
              ELSE skip_if_register(self, register_x, register_y, "Equal")
         [] class = 6 -> set_register(self, register_x, byte2)
         [] class = 7 -> add_byte(self, register_x, byte2)
         [] class = 8 -> execute_math(self, last_nibble, register_x, register_y)
         [] class = 9 ->
              IF last_nibble # 0 THEN [self EXCEPT !.fault = "assertion_failed"]
              ELSE skip_if_register(self, register_x, register_y, "NotEqual")
         [] class = 10 -> [self EXCEPT !.i = address]
         [] class = 11 ->
              [self EXCEPT !.pc = get_register(self, 0) + address,
                           !.should_increment_pc = FALSE]
         [] class = 12 -> set_register(self, register_x, BitAnd(random_byte, byte2))
         [] class = 13 ->
              draw(self, get_register(self, register_x), get_register(self, register_y),
                   last_nibble)
         [] class = 14 ->
              IF byte2 = 158 THEN skip_if_key(self, register_x, "Equal")
              ELSE IF byte2 = 161 THEN skip_if_key(self, register_x, "NotEqual")
              ELSE [self EXCEPT !.fault = "unreachable"]
         [] class = 15 ->
              CASE byte2 = 7 -> set_register(self, register_x, self.delay_timer)
                [] byte2 = 10 -> key_wait(self, register_x)
                [] byte2 = 21 -> set_delay_timer(self, register_x)
                [] byte2 = 24 -> set_sound_timer(self, register_x)
                [] byte2 = 30 -> add_to_index(self, register_x)
                [] byte2 = 41 ->
                     [self EXCEPT !.i = FONT_BASE + get_register(self, register_x) * 5]
                [] byte2 = 51 -> set_bcd(self, register_x)
                [] byte2 = 85 -> dump_registers(self, register_x)
                [] byte2 = 101 -> load_registers(self, register_x)
                [] OTHER -> [self EXCEPT !.fault = "unreachable"]

\* a key wait that never returns early
ReturnsNever(self, byte1, byte2) == FALSE

\* FX0A with an empty latch returns before the increment of pc
ReturnsEarly(self, byte1, byte2) ==
    byte1 \div 16 = 15 /\ byte2 = 10 /\ self.pressed_key = None

\* an end of execute_opcode that steps over an opcode that panicked
finish_cycle_skipping(r) ==
    IF r.should_increment_pc THEN inc_pc([r EXCEPT !.fault = "none"])
    ELSE r

\* the end of execute_opcode, unless the routine panicked
finish_cycle(r) ==
    IF r.fault # "none" THEN r
    ELSE IF r.should_increment_pc THEN inc_pc(r)
    ELSE r

execute_opcode(self, random_byte) ==
    LET m == [self EXCEPT !.should_increment_pc = TRUE]
    IN IF ~InMemory(m.pc) \/ ~InMemory(m.pc + 1)
       THEN [m EXCEPT !.fault = "index_out_of_bounds"]
       ELSE LET byte1 == Fetch(m)[1]
                byte2 == Fetch(m)[2]
                r == dispatch(m, byte1, byte2, random_byte)
            IN IF ReturnsEarly(m, byte1, byte2) THEN r ELSE finish_cycle(r)

\* the bytes fastrand::u8(..) can return; only opcode CXNN reads one
RandomBytes(self) ==
    IF InMemory(self.pc) /\ get_memory(self, self.pc) \div 16 = 12 THEN Byte ELSE {0}

\* ------------------------------------------------------------------------
\* The state machine
\* ------------------------------------------------------------------------
\* what a cycle starts from, kept to compare consecutive cycles
Snapshot(m) == [canvas |-> m.canvas, registers |-> m.registers, i |-> m.i]

\* the execution thread is between two routines that lock the canvas
NoBlit == [at |-> "fetch", dy |-> 0, collision |-> FALSE]

\* the variables take the fields of the machine m
Becomes(m) ==
    /\ memory' = m.memory
    /\ registers' = m.registers
    /\ stack' = m.stack
    /\ stack_size' = m.stack_size
    /\ i' = m.i
    /\ pc' = m.pc
    /\ delay_timer' = m.delay_timer
    /\ sound_timer' = m.sound_timer
    /\ pressed_key' = m.pressed_key
    /\ should_increment_pc' = m.should_increment_pc
    /\ canvas' = m.canvas
    /\ canvas_poisoned' = m.canvas_poisoned
    /\ overflow_checks' = m.overflow_checks
    /\ fault' = m.fault

\* a timer nobody has written since the constructor stored 0
FreshTimer == [value |-> 0, ticks |-> 0, raced |-> FALSE]

\* the state in which the machine m starts to run, driven at hz cycles a second
InitFrom(m, ticker, hz) ==
    /\ memory = m.memory
    /\ registers = m.registers
    /\ stack = m.stack
    /\ stack_size = m.stack_size
    /\ i = m.i
    /\ pc = m.pc
    /\ delay_timer = m.delay_timer
    /\ sound_timer = m.sound_timer
    /\ pressed_key = m.pressed_key
    /\ should_increment_pc = m.should_increment_pc
    /\ canvas = m.canvas
    /\ canvas_poisoned = m.canvas_poisoned
    /\ overflow_checks = m.overflow_checks
    /\ fault = m.fault
    /\ cycles = 0
    /\ executed = <<>>
    /\ before = Snapshot(m)
    /\ canvas_lock = "free"
    /\ blit = NoBlit
    /\ stable_canvas = m.canvas
    /\ render_pc = "idle"
    /\ frame = m.canvas
    /\ frames = 0
    /\ ticker_pc = ticker
    /\ ticker_value = 0
    /\ ticks = 0
    /\ timer_log = [sound |-> FreshTimer, delay |-> FreshTimer]
    /\ key_events = 0
    /\ frequency = hz
    /\ frame_start = 0
    /\ driver_pc = "top"

\* VirtualMachine::new: the machine, and the ticker thread that the
\* constructor spawns before it returns ("unspawned" when it panicked before
\* the spawn), driven at the default rate flags.frequency.unwrap_or(CLOCK_HZ)
InitWith(files, builds) ==
    \E file \in files, checks \in builds :
        \E m \in {new(file, checks)} :
            InitFrom(m, IF m.fault = "none" THEN "load_sound" ELSE "unspawned", CLOCK_HZ)

\* The machine that main.rs drives: its loop decrements machine.delay_timer
\* and machine.sound_timer itself, once per frame, as plain u8 fields, so
\* that machine has no ticker thread. Its constructor is not in the sources;
\* it is taken to build the same fields as new.
InitLockstep(files, builds, frequencies) ==
    \E file \in files, checks \in builds, hz \in frequencies :
        \E m \in {new(file, checks)} : InitFrom(m, "absent", hz)

\* one iteration of the driver: a call of execute_opcode on a live machine.
\* the opcode at pc is one whose routine locks the canvas: DXYN, and in
\* class 0 any word whose second byte is 0xE0
AtDraw == InMemory(pc) /\ InMemory(pc + 1) /\ Fetch(Self)[1] \div 16 = 13
AtClear ==
    /\ InMemory(pc) /\ InMemory(pc + 1)
    /\ Fetch(Self)[1] \div 16 = 0 /\ Fetch(Self)[2] = 224

\* Only draw and clear_canvas take the canvas lock: they wait for it and
\* hold it from their first line to their last, so the cycle is one step
\* for any other thread. Every other opcode runs whoever holds the lock.
Cycle(limit) ==
    /\ fault = "none"
    /\ cycles < limit
    /\ blit = NoBlit
    /\ (AtDraw \/ AtClear) => canvas_lock = "free"
    /\ \E random_byte \in RandomBytes(Self) :
          \E m \in {execute_opcode(Self, random_byte)} : Becomes(m)
    /\ cycles' = cycles + 1
    /\ executed' = IF InMemory(pc) /\ InMemory(pc + 1) THEN Fetch(Self) ELSE <<>>
    /\ before' = Snapshot(Self)
    /\ stable_canvas' = IF fault' = "none" THEN canvas' ELSE stable_canvas
    /\ timer_log' =
          [sound |-> IF fault' = "none" /\ executed' # <<>> /\ executed'[1] \div 16 = 15
                        /\ executed'[2] = 24
                     THEN [value |-> sound_timer', ticks |-> 0,
                           raced |-> ticker_pc = "store_sound"]
                     ELSE timer_log.sound,
           delay |-> IF fault' = "none" /\ executed' # <<>> /\ executed'[1] \div 16 = 15
                        /\ executed'[2] = 21
                     THEN [value |-> delay_timer', ticks |-> 0,
                           raced |-> ticker_pc = "store_delay"]
                     ELSE timer_log.delay]
    /\ UNCHANGED <<canvas_lock, blit, renderVars, tickerVars, key_events, driverVars>>

\* ------------------------------------------------------------------------
\* Arithmetic scenarios: 6X aa, 6Y bb, 8XYn
\* ------------------------------------------------------------------------
ByteSamples == {0, 1, 127, 128, 255}
MathOps == {0, 1, 2, 3, 4, 5, 6, 7, 14, 8}
\* every register as X, with Y the same register, its neighbour, V0 and VF
RegisterPairs == { <<x, y>> \in (0..15) \X (0..15) : y \in {x, (x + 1) % 16, 0, 15} }

MathRoms ==
    { <<96 + p[1], a, 96 + p[2], b, 128 + p[1], 16 * p[2] + n>> :
        p \in RegisterPairs, a \in ByteSamples, b \in ByteSamples, n \in MathOps }

InitMath == InitWith(MathRoms, {FALSE})
NextMath == Cycle(MaxCycles)
SpecMath == InitMath /\ [][NextMath]_vars

\* the step is a cycle that fetched an opcode of this class (high nibble of
\* byte1) whose low nibble of byte2 is sub
RanOp(class, sub) ==
    /\ cycles' = cycles + 1
    /\ executed' # <<>>
    /\ executed'[1] \div 16 = class
    /\ executed'[2] % 16 = sub

\* the register operands of the opcode the step executed
OpX == executed'[1] % 16
OpY == executed'[2] \div 16

\* the latest cycle executed an opcode of this class and low nibble
DidOp(class, sub) ==
    /\ executed # <<>>
    /\ executed[1] \div 16 = class
    /\ executed[2] % 16 = sub

\* C1: opcode 8XY4 with X in 0..14 leaves register X = (a + b) mod 256 and
\* register 15 = 1 if a + b >= 256, else 0, for a, b the values registers X
\* and Y held, Y any register (Y = X and Y = 15 included).
C1_AddWithFlag ==
    [][ (RanOp(8, 4) /\ OpX # 15) =>
          /\ fault' = "none"
          /\ registers'[OpX] = (registers[OpX] + registers[OpY]) % 256
          /\ registers'[15] = (IF registers[OpX] + registers[OpY] >= 256 THEN 1 ELSE 0)
      ]_vars

\* an add that carried, with Y = 15 as the second operand
C1_Witness ==
    /\ DidOp(8, 4) /\ fault = "none" /\ cycles = 3
    /\ executed[1] % 16 = 3 /\ executed[2] \div 16 = 15
    /\ MemoryAt(memory, ROM_BASE + 1) = 255 /\ MemoryAt(memory, ROM_BASE + 3) = 128
    /\ registers[3] = 127 /\ registers[15] = 1

\* C2: opcode 8XY5 with X in 0..14 leaves register X = (a - b) mod 256 and
\* register 15 = 1 iff a >= b; opcode 8XY7 leaves register X = (b - a) mod 256
\* and register 15 = 1 iff b >= a; equal operands give result 0 and flag 1.
C2_SubWithFlag ==
    [][ /\ (RanOp(8, 5) /\ OpX # 15) =>
             /\ fault' = "none"
             /\ registers'[OpX] = (registers[OpX] - registers[OpY]) % 256
             /\ registers'[15] = (IF registers[OpX] >= registers[OpY] THEN 1 ELSE 0)
        /\ (RanOp(8, 7) /\ OpX # 15) =>
             /\ fault' = "none"
             /\ registers'[OpX] = (registers[OpY] - registers[OpX]) % 256
             /\ registers'[15] = (IF registers[OpY] >= registers[OpX] THEN 1 ELSE 0)
      ]_vars

\* a subtraction of equal operands held in two registers: result 0, flag 1
C2_Witness ==
    /\ DidOp(8, 5) /\ fault = "none" /\ cycles = 3
    /\ executed[1] % 16 = 4 /\ executed[2] \div 16 = 5
    /\ MemoryAt(memory, ROM_BASE + 1) = 128 /\ MemoryAt(memory, ROM_BASE + 3) = 128
    /\ registers[4] = 0 /\ registers[15] = 1

\* C3: opcode 8XY6 with X in 0..14 leaves register X = a div 2 and register
\* 15 = a mod 2; opcode 8XYE leaves register X = (2 * a) mod 256 and register
\* 15 = a div 128; register Y is unchanged when it is neither X nor 15.
C3_ShiftInPlace ==
    [][ /\ (RanOp(8, 6) /\ OpX # 15) =>
             /\ fault' = "none"
             /\ registers'[OpX] = registers[OpX] \div 2
             /\ registers'[15] = registers[OpX] % 2
             /\ (OpY \notin {OpX, 15}) => registers'[OpY] = registers[OpY]
        /\ (RanOp(8, 14) /\ OpX # 15) =>
             /\ fault' = "none"
             /\ registers'[OpX] = (2 * registers[OpX]) % 256
             /\ registers'[15] = registers[OpX] \div 128
             /\ (OpY \notin {OpX, 15}) => registers'[OpY] = registers[OpY]
      ]_vars

\* a right shift of 255 in register 1 while register 2 holds 0
C3_Witness ==
    /\ DidOp(8, 6) /\ fault = "none" /\ cycles = 3
    /\ executed[1] % 16 = 1 /\ executed[2] \div 16 = 2
    /\ registers[1] = 127 /\ registers[2] = 0 /\ registers[15] = 1
    /\ MemoryAt(memory, ROM_BASE + 1) = 255

\* ------------------------------------------------------------------------
\* Draw scenarios: 60 x1, 61 yy, Annn, D01N, 60 x2, D01N, D01N, 00E0, sprite
\* ------------------------------------------------------------------------
CoordSamples == {0, 60, 250}
RowSamples == {0, 30, 250}
HeightSamples == {0, 1, 2, 15}
\* sprites of 15 rows that alternate two bytes
SpritePairs == {<<0, 0>>, <<255, 129>>, <<128, 1>>, <<15, 240>>}
Sprite(p) == [k \in 1..15 |-> IF k % 2 = 1 THEN p[1] ELSE p[2]]
\* where I points: at the sprite after the program, or near the end of memory
SpriteAddress == ROM_BASE + 16
IndexSamples == {SpriteAddress, 4090}

DrawRoms ==
    { <<96, x1, 97, y, 160 + (a \div 256), a % 256, 208, 16 + n,
        96, x2, 208, 16 + n, 208, 16 + n, 0, 224>> \o Sprite(p) :
        x1 \in CoordSamples, x2 \in CoordSamples, y \in RowSamples,
        a \in IndexSamples, n \in HeightSamples, p \in SpritePairs }

InitDraw == InitWith(DrawRoms, BOOLEAN)
NextDraw == Cycle(MaxDrawCycles)
SpecDraw == InitDraw /\ [][NextDraw]_vars

\* the step is a cycle that fetched an opcode of this class
RanClass(class) ==
    /\ cycles' = cycles + 1
    /\ executed' # <<>>
    /\ executed'[1] \div 16 = class

\* the cells the draw opcode in executed' addresses, by the rule of the
\* draw routine's contract: bit 7 - column of row byte I + row set, at
\* ((x + column) mod 64, (y + row) mod 32)
SpriteBit(byte, column) == (byte \div (2 ^ (7 - column))) % 2 = 1
SpriteCells(mem, index, x, y, height) ==
    { <<(y + row) % HEIGHT, (x + column) % WIDTH>> :
        <<row, column>> \in { rc \in (0..(height - 1)) \X (0..7) :
                                 SpriteBit(MemoryAt(mem, index + rc[1]), rc[2]) } }

OpCells == SpriteCells(memory, i, registers[OpX], registers[OpY], executed'[2] % 16)

\* C4: for every 8-bit x and y, every height and every sprite row byte, DXYN
\* toggles exactly the cells ((x + column) mod 64, (y + row) mod 32) whose
\* sprite bit is set, leaves every other cell unchanged, completes without a
\* fault, and sets register 15 to 1 iff a toggled cell was on before.
C4_DrawWraps ==
    [][ (RanClass(13) /\ i + (executed'[2] % 16) <= MEMORY_SIZE) =>
          /\ fault' = "none"
          /\ canvas' = (canvas \ OpCells) \cup (OpCells \ canvas)
          /\ registers'[15] = (IF OpCells \cap canvas # {} THEN 1 ELSE 0)
      ]_vars

\* C4 without the coordinates whose u8 sums x + column or y + row pass 255
\* in a build that checks arithmetic overflow
C4_DrawWrapsUnlessOverflowChecked ==
    [][ (RanClass(13) /\ i + (executed'[2] % 16) <= MEMORY_SIZE
           /\ ~(overflow_checks /\ fault' = "arithmetic_overflow")) =>
          /\ fault' = "none"
          /\ canvas' = (canvas \ OpCells) \cup (OpCells \ canvas)
          /\ registers'[15] = (IF OpCells \cap canvas # {} THEN 1 ELSE 0)
      ]_vars

\* the latest cycle was a draw that completed; the step is a cycle that runs
\* the same draw opcode with the same coordinates and index
SecondDraw ==
    /\ executed # <<>> /\ executed[1] \div 16 = 13 /\ fault = "none"
    /\ RanClass(13) /\ executed' = executed
    /\ registers[OpX] = before.registers[OpX]
    /\ registers[OpY] = before.registers[OpY]
    /\ i = before.i

\* a sprite bit is set in the rows the draw opcode in executed' reads
SpriteHasBit ==
    \E row \in 0..((executed'[2] % 16) - 1) : MemoryAt(memory, i + row) # 0

\* C5 as stated: the second of two equal draws restores the framebuffer and
\* sets register 15 to 1 whenever a sprite bit in the drawn rows is set, to 0
\* when none is.
C5_SecondDrawCollides ==
    [][ SecondDraw =>
          /\ canvas' = before.canvas
          /\ registers'[15] = (IF SpriteHasBit THEN 1 ELSE 0)
      ]_vars

\* C5 amended: the second of two equal draws restores the framebuffer and
\* sets register 15 to 1 exactly when the first draw turned a cell on.
C5_SecondDrawRestores ==
    [][ SecondDraw =>
          /\ fault' = "none"
          /\ canvas' = before.canvas
          /\ registers'[15] = (IF canvas \ before.canvas # {} THEN 1 ELSE 0)
      ]_vars

\* the third draw of the program repeated the second one on a canvas that
\* held cells of the first: the canvas is the one before the second draw,
\* the sprite wrapped on both axes and the second of the pair collided
C5_Witness ==
    /\ cycles = 7 /\ fault = "none"
    /\ executed = <<208, 16 + 2>>
    /\ registers[0] = 60 /\ registers[1] = 30 /\ registers[15] = 1
    /\ MemoryAt(memory, ROM_BASE + 1) = 0
    /\ MemoryAt(memory, SpriteAddress) = 255
    /\ canvas = { <<r, c>> \in {30, 31} \X (0..63) :
                    \/ r = 30 /\ c \in 0..7
                    \/ r = 31 /\ c \in {0, 7} }

\* ------------------------------------------------------------------------
\* The canvas shared with a renderer: draw and clear_canvas row by row
\* ------------------------------------------------------------------------
\* the operands of the draw in progress
BlitX == registers[executed[1] % 16]
BlitY == registers[executed[2] \div 16]
BlitHeight == executed[2] % 16

\* the canvas guard between two rows of a draw lives until drop(canvas)
lock_released_per_row(dy) == "free"

lock_during_draw(dy) == "exec"

\* execute_opcode up to canvas.lock().unwrap() of draw or clear_canvas
BlitBegin(limit, routine) ==
    /\ fault = "none"
    /\ cycles < limit
    /\ blit = NoBlit
    /\ canvas_lock = "free"
    /\ cycles' = cycles + 1
    /\ executed' = Fetch(Self)
    /\ before' = Snapshot(Self)
    /\ should_increment_pc' = TRUE
    /\ IF canvas_poisoned
       THEN /\ fault' = "poisoned_lock"
            /\ UNCHANGED <<canvas_lock, blit>>
       ELSE /\ fault' = fault
            /\ canvas_lock' = "exec"
            /\ blit' = [at |-> routine, dy |-> 0, collision |-> FALSE]
    /\ UNCHANGED <<memory, registers, stack, stack_size, i, pc, delay_timer, sound_timer,
                   pressed_key, canvas, canvas_poisoned, overflow_checks,
                   stable_canvas, renderVars, tickerVars, timer_log, key_events, driverVars>>

DrawBegin(limit) == AtDraw /\ BlitBegin(limit, "draw")

\* one iteration of the outer loop of draw; a panic unwinds through the
\* guard, which poisons and releases the lock
DrawRow ==
    /\ blit.at = "draw"
    /\ blit.dy < BlitHeight
    /\ canvas_lock # "render"
    /\ \E st \in {draw_row(Self, [canvas |-> canvas, collision |-> blit.collision,
                                  fault |-> "none"], BlitX, BlitY, blit.dy)} :
          IF st.fault # "none"
          THEN /\ Becomes(draw_finish(Self, st))
               /\ canvas_lock' = "free"
               /\ blit' = NoBlit
          ELSE /\ canvas' = st.canvas
               /\ canvas_lock' = lock_during_draw(blit.dy)
               /\ blit' = [blit EXCEPT !.dy = blit.dy + 1, !.collision = st.collision]
               /\ UNCHANGED <<memory, registers, stack, stack_size, i, pc, delay_timer,
                              sound_timer, pressed_key, should_increment_pc,
                              canvas_poisoned, overflow_checks, fault>>
    /\ UNCHANGED <<cycleVars, stable_canvas, renderVars, tickerVars, timer_log, key_events, driverVars>>

\* drop(canvas), set_flag, and the end of execute_opcode
DrawEnd ==
    /\ blit.at = "draw"
    /\ blit.dy >= BlitHeight
    /\ canvas_lock # "render"
    /\ \E m \in {finish_cycle(draw_finish(Self, [canvas |-> canvas,
                                                 collision |-> blit.collision,
                                                 fault |-> "none"]))} : Becomes(m)
    /\ canvas_lock' = "free"
    /\ blit' = NoBlit
    /\ stable_canvas' = canvas
    /\ UNCHANGED <<cycleVars, renderVars, tickerVars, timer_log, key_events, driverVars>>

ClearBegin(limit) == AtClear /\ BlitBegin(limit, "clear")

\* one call of the closure of clear_canvas
ClearRow ==
    /\ blit.at = "clear"
    /\ blit.dy < HEIGHT
    /\ canvas' = fill_row(canvas, blit.dy)
    /\ blit' = [blit EXCEPT !.dy = blit.dy + 1]
    /\ UNCHANGED <<memory, registers, stack, stack_size, i, pc, delay_timer, sound_timer,
                   pressed_key, should_increment_pc, canvas_poisoned, overflow_checks,
                   fault, cycleVars, canvas_lock, stable_canvas, renderVars,
                   tickerVars, timer_log, key_events, driverVars>>

\* the guard of clear_canvas goes out of scope, and the end of execute_opcode
ClearEnd ==
    /\ blit.at = "clear"
    /\ blit.dy >= HEIGHT
    /\ \E m \in {finish_cycle(Self)} : Becomes(m)
    /\ canvas_lock' = "free"
    /\ blit' = NoBlit
    /\ stable_canvas' = canvas
    /\ UNCHANGED <<cycleVars, renderVars, tickerVars, timer_log, key_events, driverVars>>

\* a cycle of an opcode that does not lock the canvas
OtherCycle(limit) == ~AtDraw /\ ~AtClear /\ Cycle(limit)

\* the renderer takes the canvas lock; a poisoned lock makes unwrap panic
RenderLock ==
    /\ render_pc = "idle"
    /\ frames < MaxFrames
    /\ canvas_lock = "free"
    /\ IF canvas_poisoned
       THEN render_pc' = "panicked" /\ UNCHANGED canvas_lock
       ELSE render_pc' = "locked" /\ canvas_lock' = "render"
    /\ UNCHANGED <<machineVars, cycleVars, blit, stable_canvas, frame, frames,
                   tickerVars, timer_log, key_events, driverVars>>

\* the renderer copies the grid and releases the lock
RenderRead ==
    /\ render_pc = "locked"
    /\ frame' = canvas
    /\ frames' = frames + 1
    /\ render_pc' = "idle"
    /\ canvas_lock' = "free"
    /\ UNCHANGED <<machineVars, cycleVars, blit, stable_canvas,
                   tickerVars, timer_log, key_events, driverVars>>

\* Render scenarios: 60 xx, 61 1E, A2 0C, D012, 0nE0, D012, sprite FF 81
RenderRoms ==
    { <<96, x, 97, 30, 162, 12, 208, 18, n, 224, 208, 18, 255, 129>> :
        x \in CoordSamples, n \in {0, 1} }

InitRender == InitWith(RenderRoms, BOOLEAN)
NextRender ==
    \/ OtherCycle(MaxRenderCycles)
    \/ DrawBegin(MaxRenderCycles)
    \/ DrawRow
    \/ DrawEnd
    \/ ClearBegin(MaxRenderCycles)
    \/ ClearRow
    \/ ClearEnd
    \/ RenderLock
    \/ RenderRead
SpecRender == InitRender /\ [][NextRender]_vars

\* the routines taken row by row end where the whole routine ends
BlitIsWholeRoutine ==
    [][ (blit.at # "fetch" /\ blit'.at = "fetch" /\ fault' = "none") =>
          LET m == execute_opcode([Self EXCEPT !.canvas = before.canvas], 0)
          IN canvas' = m.canvas /\ registers' = m.registers /\ pc' = m.pc
      ]_vars

\* C6: in every interleaving of the execution thread with a renderer that
\* reads the canvas under its lock, every copy the renderer takes is the
\* canvas as a completed draw or clear left it, never one with only some
\* rows of a sprite toggled or only some rows cleared.
C6_RendererSeesWholeBlits ==
    [][ frames' = frames + 1 => frame' = stable_canvas ]_vars

\* the renderer copied the wrapped sprite between the first draw and the
\* clear, waited for the lock while the clear ran, and the clear is done
C6_Witness ==
    /\ frames = 1
    /\ frame = { <<r, c>> \in {30, 31} \X (0..63) :
                   \/ r = 30 /\ c \in (60..63) \cup (0..3)
                   \/ r = 31 /\ c \in {60, 3} }
    /\ DidOp(0, 0) /\ blit = NoBlit /\ canvas = {} /\ cycles = 5

\* ------------------------------------------------------------------------
\* The timer ticker
\* ------------------------------------------------------------------------
\* the log of a timer after one more decrement of the ticker
Ticked(log) == [log EXCEPT !.ticks = log.ticks + 1]

\* the thread of VirtualMachine::new: let sound_value = sound_timer.load(..)
TickLoadSound ==
    /\ ticker_pc = "load_sound"
    /\ ticks < MaxTicks
    /\ ticker_value' = sound_timer
    /\ ticker_pc' = "store_sound"
    /\ UNCHANGED <<machineVars, cycleVars, blitVars, renderVars, ticks, timer_log, key_events, driverVars>>

\* if sound_value > 0 { sound_timer.store(sound_value - 1, ..) }
TickStoreSound ==
    /\ ticker_pc = "store_sound"
    /\ sound_timer' = IF ticker_value > 0 THEN ticker_value - 1 ELSE sound_timer
    /\ ticker_pc' = "load_delay"
    /\ timer_log' = [timer_log EXCEPT !.sound = Ticked(timer_log.sound)]
    /\ UNCHANGED <<memory, registers, stack, stack_size, i, pc, delay_timer, pressed_key,
                   should_increment_pc, canvas, canvas_poisoned, overflow_checks, fault,
                   cycleVars, blitVars, renderVars, ticker_value, ticks, key_events, driverVars>>

\* let delay_value = delay_timer.load(..)
TickLoadDelay ==
    /\ ticker_pc = "load_delay"
    /\ ticker_value' = delay_timer
    /\ ticker_pc' = "store_delay"
    /\ UNCHANGED <<machineVars, cycleVars, blitVars, renderVars, ticks, timer_log, key_events, driverVars>>

\* if delay_value > 0 { delay_timer.store(delay_value - 1, ..) }, then the sleep
TickStoreDelay ==
    /\ ticker_pc = "store_delay"
    /\ delay_timer' = IF ticker_value > 0 THEN ticker_value - 1 ELSE delay_timer
    /\ ticker_pc' = "load_sound"
    /\ ticks' = ticks + 1
    /\ timer_log' = [timer_log EXCEPT !.delay = Ticked(timer_log.delay)]
    /\ UNCHANGED <<memory, registers, stack, stack_size, i, pc, sound_timer, pressed_key,
                   should_increment_pc, canvas, canvas_poisoned, overflow_checks, fault,
                   cycleVars, blitVars, renderVars, ticker_value, key_events, driverVars>>

\* u8::saturating_sub(1)
saturating_wraps(value) == (value + 255) % 256

saturating_sub_1(value) == IF value >= 1 THEN value - 1 ELSE 0

\* the main loop's own tick, once per frame, where no ticker thread runs
FrameTick ==
    /\ ticker_pc = "absent"
    /\ ticks < MaxTicks
    /\ delay_timer' = saturating_sub_1(delay_timer)
    /\ sound_timer' = saturating_sub_1(sound_timer)
    /\ ticks' = ticks + 1
    /\ timer_log' = [sound |-> Ticked(timer_log.sound), delay |-> Ticked(timer_log.delay)]
    /\ UNCHANGED <<memory, registers, stack, stack_size, i, pc, pressed_key,
                   should_increment_pc, canvas, canvas_poisoned, overflow_checks, fault,
                   cycleVars, blitVars, renderVars, ticker_pc, ticker_value, key_events, driverVars>>

\* Timer scenarios: 60 vv, F015, F018, 60 ww, F018
TimerValues == {0, 1, 2, 255}
TimerRewrites == {0, 1, 3}
TimerRoms ==
    { <<96, v, 240, 21, 240, 24, 96, w, 240, 24>> : v \in TimerValues, w \in TimerRewrites }

InitTimer == InitWith(TimerRoms, {FALSE}) \/ InitLockstep(TimerRoms, {FALSE}, {CLOCK_HZ})
NextTimer ==
    \/ Cycle(MaxTimerCycles)
    \/ TickLoadSound
    \/ TickStoreSound
    \/ TickLoadDelay
    \/ TickStoreDelay
    \/ FrameTick
SpecTimer == InitTimer /\ [][NextTimer]_vars

Max(a, b) == IF a >= b THEN a ELSE b

\* the timer holds what the CPU last stored, less the decrements since,
\* saturating at 0
Decayed(timer, log) == timer = Max(log.value - log.ticks, 0)

\* C7: a timer that holds V and is not written by the CPU holds
\* max(V - N, 0) after N ticks; both timers stay in 0..255 and a tick on a
\* timer at 0 leaves it at 0.
C7_TimerDecay ==
    /\ sound_timer \in Byte
    /\ delay_timer \in Byte
    /\ ~timer_log.sound.raced => Decayed(sound_timer, timer_log.sound)
    /\ ~timer_log.delay.raced => Decayed(delay_timer, timer_log.delay)

\* the ticker thread ran three times on a delay timer written with 2: it
\* went 2, 1, 0 and the third tick left it at 0
C7_Witness ==
    /\ ticker_pc = "load_sound"
    /\ timer_log.delay = [value |-> 2, ticks |-> 3, raced |-> FALSE]
    /\ delay_timer = 0
    /\ timer_log.sound = [value |-> 3, ticks |-> 2, raced |-> FALSE]
    /\ sound_timer = 1

\* C8: after FX18 with register X holding v the sound timer holds max(v, 2).
C8_SoundFloor ==
    [][ (RanOp(15, 8) /\ executed'[2] = 24) => sound_timer' = Max(registers[OpX], 2) ]_vars

\* what FX18 does: the sound timer holds v, whatever v is
C8_SoundStoredAsIs ==
    [][ (RanOp(15, 8) /\ executed'[2] = 24) => sound_timer' = registers[OpX] ]_vars

\* ------------------------------------------------------------------------
\* The input loop
\* ------------------------------------------------------------------------
\* the scancodes of the key events: the sixteen mapped keys, one key the
\* keypad does not have, and an event without a scancode
Scancodes ==
    {"Num1", "Num2", "Num3", "Num4", "Q", "W", "E", "R",
     "A", "S", "D", "F", "Z", "X", "C", "V", "Space", "NoScancode"}

scancode_to_chip8_code(scancode) ==
    CASE scancode = "Num1" -> Some(1)
      [] scancode = "Num2" -> Some(2)
      [] scancode = "Num3" -> Some(3)
      [] scancode = "Num4" -> Some(12)
      [] scancode = "Q" -> Some(4)
      [] scancode = "W" -> Some(5)
      [] scancode = "E" -> Some(6)
      [] scancode = "R" -> Some(13)
      [] scancode = "A" -> Some(7)
      [] scancode = "S" -> Some(8)
      [] scancode = "D" -> Some(9)
      [] scancode = "F" -> Some(14)
      [] scancode = "Z" -> Some(10)
      [] scancode = "X" -> Some(0)
      [] scancode = "C" -> Some(11)
      [] scancode = "V" -> Some(15)
      [] OTHER -> None

\* Event::KeyDown that is not a repeat
KeyDown ==
    /\ key_events < MaxKeyEvents
    /\ \E scancode \in Scancodes : pressed_key' = scancode_to_chip8_code(scancode)
    /\ key_events' = key_events + 1
    /\ UNCHANGED <<memory, registers, stack, stack_size, i, pc, delay_timer, sound_timer,
                   should_increment_pc, canvas, canvas_poisoned, overflow_checks, fault,
                   cycleVars, blitVars, renderVars, tickerVars, timer_log, driverVars>>

\* Event::KeyUp
KeyUp ==
    /\ key_events < MaxKeyEvents
    /\ pressed_key' = None
    /\ key_events' = key_events + 1
    /\ UNCHANGED <<memory, registers, stack, stack_size, i, pc, delay_timer, sound_timer,
                   should_increment_pc, canvas, canvas_poisoned, overflow_checks, fault,
                   cycleVars, blitVars, renderVars, tickerVars, timer_log, driverVars>>

\* Key scenarios: FX0A, FY0A
KeyRegisters == {0, 3, 15}
KeyRoms == { <<240 + x, 10, 240 + y, 10>> : x \in KeyRegisters, y \in KeyRegisters }

InitKey == InitWith(KeyRoms, {FALSE})
NextKey ==
    \/ Cycle(MaxCycles)
    \/ KeyDown
    \/ KeyUp
SpecKey == InitKey /\ [][NextKey]_vars

\* C9: FX0A with an empty latch leaves PC, the registers, I, the stack and
\* memory unchanged and the latch empty; with key k in the latch it leaves
\* register X = k, PC advanced by 2 and the latch empty.
C9_KeyWait ==
    [][ (RanOp(15, 10) /\ executed'[2] = 10) =>
          IF pressed_key = None
          THEN /\ pc' = pc /\ registers' = registers /\ i' = i
               /\ stack' = stack /\ stack_size' = stack_size /\ memory' = memory
               /\ pressed_key' = None /\ fault' = "none"
          ELSE /\ registers'[OpX] = Unwrap(pressed_key)
               /\ pc' = pc + 2
               /\ pressed_key' = None /\ fault' = "none"
      ]_vars

\* the first key wait found the latch empty and was fetched again; the key
\* Num4 came down and the retry stored its code 0xC in register 3
C9_Witness ==
    /\ cycles = 2 /\ executed = <<243, 10>> /\ fault = "none"
    /\ registers[3] = 12 /\ pc = ROM_BASE + 2 /\ pressed_key = None
    /\ key_events = 1

\* ------------------------------------------------------------------------
\* Stack scenarios
\* ------------------------------------------------------------------------
\* 2200: a call of itself; 00EE: a return on the empty stack; 2204 1202
\* 2208 00EE 00EE: two nested calls that return; 0204 00EE 00EE: a legacy
\* call that returns to a return on the empty stack; 0000: the legacy call
\* of address 0, which the zeroed memory repeats
\* 2FFE, 00EE at 0x200 and 2202 in the last word of memory, at 0xFFE: the
\* call of the last word pushes 0x1000, where no word can be fetched
LastWordRom ==
    [k \in 1..(MEMORY_SIZE - ROM_BASE) |->
        CASE k = 1 -> 47 [] k = 2 -> 254 [] k = 4 -> 238
          [] k = MEMORY_SIZE - ROM_BASE - 1 -> 34 [] k = MEMORY_SIZE - ROM_BASE -> 2
          [] OTHER -> 0]

StackRoms ==
    { <<34, 0>>,
      <<0, 238>>,
      <<34, 4, 18, 2, 34, 8, 0, 238, 0, 238>>,
      <<2, 4, 0, 238, 0, 238>>,
      <<0, 0>>,
      LastWordRom }

InitStack == InitWith(StackRoms, BOOLEAN)
NextStack == Cycle(MaxStackCycles)
SpecStack == InitStack /\ [][NextStack]_vars

\* the step is a cycle that fetched a call: 2NNN, or 0NNN other than 00E0, 00EE
RanCall ==
    \/ RanClass(2)
    \/ RanClass(0) /\ executed'[2] \notin {224, 238}

RanReturn == RanClass(0) /\ executed'[2] = 238

\* C10: a call raises the depth by one, a return lowers it by one; a return
\* at depth 0 and a call at depth 100 are fatal faults; the depth stays in
\* 0..100 and no slot outside the stack array is read or written.
C10_StackDiscipline ==
    [][ /\ RanCall =>
             IF stack_size < STACK_CAPACITY
             THEN /\ stack_size' = stack_size + 1 /\ fault' = "none"
                  /\ stack' = [stack EXCEPT ![stack_size] = pc + 2]
             ELSE /\ fault' # "none" /\ stack' = stack /\ stack_size' = stack_size
        /\ RanReturn =>
             IF stack_size >= 1
             THEN /\ stack_size' = stack_size - 1 /\ fault' = "none"
                  /\ pc' = stack[stack_size - 1] /\ stack' = stack
             ELSE /\ fault' # "none" /\ stack' = stack /\ stack_size' = stack_size
        /\ stack_size' \in 0..STACK_CAPACITY
        /\ DOMAIN stack' = 0..(STACK_CAPACITY - 1)
        /\ fault # "none" => cycles' = cycles
      ]_vars

\* the call of itself ran 100 times, and the 101st call found the stack full
C10_Witness ==
    /\ executed = <<34, 0>> /\ cycles = 101
    /\ stack_size = STACK_CAPACITY /\ fault = "index_out_of_bounds"
    /\ stack[STACK_CAPACITY - 1] = ROM_BASE + 2

\* a return on the empty stack ends the run
C10_UnderflowWitness ==
    /\ executed = <<0, 238>> /\ stack_size = 0 /\ fault = "assertion_failed"
    /\ cycles = 3

\* ------------------------------------------------------------------------
\* Register transfer scenarios:
\* 60 aa, 61 bb, 6F cc, Annn, FX55, C0 03, 61 08, 6F 07, FX65
\* ------------------------------------------------------------------------
\* the values of registers 0, 1 and 15 at the dump
TransferValues == {<<1, 2, 3>>, <<255, 0, 128>>}
\* where I points: past the program, with I + 15 the last cell of memory,
\* and with I + 6 past the end of memory
TransferIndexes == {768, 4080, 4090}

TransferRoms ==
    { <<96, v[1], 97, v[2], 111, v[3], 160 + (a \div 256), a % 256, 240 + x, 85,
        192, 3, 97, 8, 111, 7, 240 + x, 101>> :
        v \in TransferValues, a \in TransferIndexes, x \in 0..15 }

InitTransfer == InitWith(TransferRoms, BOOLEAN)
NextTransfer == Cycle(MaxTransferCycles)
SpecTransfer == InitTransfer /\ [][NextTransfer]_vars

\* the step is a cycle that fetched FX55, or FX65
RanDump == RanClass(15) /\ executed'[2] = 85
RanLoad == RanClass(15) /\ executed'[2] = 101

\* the value the program of the scenario gave register r before its dump
DumpedValue(r) ==
    CASE r = 0 -> MemoryAt(memory, ROM_BASE + 1)
      [] r = 1 -> MemoryAt(memory, ROM_BASE + 3)
      [] r = 15 -> MemoryAt(memory, ROM_BASE + 5)
      [] OTHER -> 0

\* C11: with I + X < 0x1000, FX55 writes registers 0..X to memory cells
\* I..I+X and nothing else, FX65 writes memory cells I..I+X to registers 0..X
\* and nothing else, neither changes I, and a load after a dump with the same
\* X and I restores registers 0..X to their values at the dump whatever the
\* registers were changed to in between.
C11_DumpLoadRoundTrip ==
    [][ /\ (RanDump /\ i + OpX < MEMORY_SIZE) =>
             /\ fault' = "none"
             /\ \A a \in DOMAIN memory \cup DOMAIN memory' \cup (i..(i + OpX)) :
                   MemoryAt(memory', a) =
                      (IF a \in i..(i + OpX) THEN registers[a - i] ELSE MemoryAt(memory, a))
             /\ registers' = registers
             /\ i' = i
        /\ (RanLoad /\ i + OpX < MEMORY_SIZE) =>
             /\ fault' = "none"
             /\ registers' = [r \in 0..15 |->
                                IF r <= OpX THEN MemoryAt(memory, i + r) ELSE registers[r]]
             /\ memory' = memory
             /\ i' = i
             /\ cycles' = 9 => \A r \in 0..OpX : registers'[r] = DumpedValue(r)
      ]_vars

\* registers 0..3 were dumped at 0xFF0 holding 255, 0, 0, 0, registers 0, 1
\* and 15 were changed, and the load brought 0..3 back and left 15 changed
C11_Witness ==
    /\ cycles = 9 /\ executed = <<243, 101>> /\ fault = "none"
    /\ i = 4080
    /\ MemoryAt(memory, 4080) = 255
    /\ registers[0] = 255 /\ registers[1] = 0 /\ registers[15] = 7
    /\ before.registers[0] \in 1..3 /\ before.registers[1] = 8

\* ------------------------------------------------------------------------
\* Decimal digit scenarios: 6X vv, Annn, FX33
\* ------------------------------------------------------------------------
BcdRegisters == {0, 7, 15}
\* where I points: at the font, past the program, with I + 2 the last cell
\* of memory, and with I + 2 past the end of memory
BcdIndexes == {FONT_BASE, 768, 4093, 4094}

BcdRoms ==
    { <<96 + x, v, 160 + (a \div 256), a % 256, 240 + x, 51>> :
        x \in BcdRegisters, v \in Byte, a \in BcdIndexes }

InitBcd == InitWith(BcdRoms, {FALSE})
NextBcd == Cycle(MaxBcdCycles)
SpecBcd == InitBcd /\ [][NextBcd]_vars

\* the step is a cycle that fetched FX33
RanBcd == RanClass(15) /\ executed'[2] = 51

\* C12: with I + 2 < 0x1000, FX33 with register X = v leaves memory[I],
\* memory[I+1], memory[I+2] each in 0..9 with
\* 100 * memory[I] + 10 * memory[I+1] + memory[I+2] = v, and changes no other
\* memory cell and no register.
C12_BcdDigits ==
    [][ (RanBcd /\ i + 2 < MEMORY_SIZE) =>
          /\ fault' = "none"
          /\ \A k \in 0..2 : MemoryAt(memory', i + k) \in 0..9
          /\ 100 * MemoryAt(memory', i) + 10 * MemoryAt(memory', i + 1)
                + MemoryAt(memory', i + 2) = registers[OpX]
          /\ \A a \in (DOMAIN memory \cup DOMAIN memory') \ (i..(i + 2)) :
                MemoryAt(memory', a) = MemoryAt(memory, a)
          /\ registers' = registers
      ]_vars

\* 255 in register 15 was stored as 2, 5, 5 in the last three cells of memory
C12_Witness ==
    /\ cycles = 3 /\ executed = <<255, 51>> /\ fault = "none"
    /\ registers[15] = 255 /\ i = 4093
    /\ MemoryAt(memory, 4093) = 2 /\ MemoryAt(memory, 4094) = 5 /\ MemoryAt(memory, 4095) = 5

\* ------------------------------------------------------------------------
\* Register write scenarios: 6X aa, 6Y bb, 7X nn, 8XYn with n in 0..3
\* ------------------------------------------------------------------------
WriteRegisters == {0, 5, 14, 15}
WriteValues == {0, 5, 170, 255}
WriteOperands == {15, 85, 255}
WriteAddends == {0, 3, 255}

\* X with Y the same register, register 1 and the flag register
WritePairs == { <<x, y>> \in WriteRegisters \X (0..15) : y \in {x, 1, 15} }

WriteRoms ==
    { <<96 + p[1], a, 96 + p[2], b, 112 + p[1], nn, 128 + p[1], 16 * p[2] + n>> :
        p \in WritePairs, a \in WriteValues, b \in WriteOperands,
        nn \in WriteAddends, n \in 0..3 }
    \cup { <<96, 5, 112, 3>> }

InitWrite == InitWith(WriteRoms, {FALSE})
NextWrite == Cycle(MaxWriteCycles)
SpecWrite == InitWrite /\ [][NextWrite]_vars

\* bit k of a byte
Bit(byte, k) == (byte \div (2 ^ k)) % 2

\* the step leaves value in register X, changes no other register and
\* advances pc by 2
WritesOnlyX(value) ==
    /\ fault' = "none"
    /\ registers' = [registers EXCEPT ![OpX] = value]
    /\ pc' = pc + 2

\* the byte whose bit k is f applied to bits k of registers X and Y
Bitwise(f(_, _)) ==
    CHOOSE v \in Byte : \A k \in 0..7 : Bit(v, k) = f(Bit(registers[OpX], k),
                                                      Bit(registers[OpY], k))
BitOfOr(a, b) == IF a + b >= 1 THEN 1 ELSE 0
BitOfAnd(a, b) == a * b
BitOfXor(a, b) == (a + b) % 2

\* C13: 6XNN leaves register X = NN, 7XNN leaves register X =
\* (old X + NN) mod 256, 8XY0..8XY3 leave register X = Y, X | Y, X & Y, X ^ Y;
\* each advances pc by exactly 2 and changes no register other than X, the
\* flag register included when 7XNN wraps.  The program 60 05, 70 03 leaves
\* register 0 = 8 and pc = 0x204 after two cycles.
C13_NonFlagWrites ==
    [][ /\ RanClass(6) => WritesOnlyX(executed'[2])
        /\ RanClass(7) => WritesOnlyX((registers[OpX] + executed'[2]) % 256)
        /\ RanOp(8, 0) => WritesOnlyX(registers[OpY])
        /\ RanOp(8, 1) => WritesOnlyX(Bitwise(BitOfOr))
        /\ RanOp(8, 2) => WritesOnlyX(Bitwise(BitOfAnd))
        /\ RanOp(8, 3) => WritesOnlyX(Bitwise(BitOfXor))
        /\ (cycles' = 2 /\ executed = <<96, 5>> /\ executed' = <<112, 3>>) =>
              registers'[0] = 8 /\ pc' = ROM_BASE + 4
      ]_vars

\* the program 60 05, 70 03 after its two cycles
C13_Witness ==
    /\ cycles = 2 /\ executed = <<112, 3>> /\ fault = "none"
    /\ MemoryAt(memory, ROM_BASE + 1) = 5
    /\ registers[0] = 8 /\ pc = ROM_BASE + 4
    /\ \A r \in 1..15 : registers[r] = 0

\* an add of 255 to 5 in register 5 wrapped to 4 and left the 255 in
\* register 15 alone
C13_WrapWitness ==
    /\ cycles = 3 /\ executed = <<112 + 5, 255>> /\ fault = "none"
    /\ registers[5] = 4 /\ registers[15] = 255 /\ before.registers[5] = 5

\* ------------------------------------------------------------------------
\* Decoding scenarios: one opcode word of class 5, 8, 9, E or F, then 60 01
\* ------------------------------------------------------------------------
\* every low byte with X = 0 and X = 15 in classes E and F, every low nibble
\* with two register pairs in classes 5, 8 and 9
DecodeWords ==
    { <<224 + x, b>> : x \in {0, 15}, b \in Byte }
    \cup { <<240 + x, b>> : x \in {0, 15}, b \in Byte }
    \cup { <<16 * c + x, 16 * x + n>> : c \in {5, 8, 9}, x \in {0, 15}, n \in 0..15 }

\* the longest file that fits above ROM_BASE, and a file one byte longer
LongestRom == [k \in 1..(MEMORY_SIZE - ROM_BASE) |-> 96]
OversizedRom == [k \in 1..(MEMORY_SIZE - ROM_BASE + 1) |-> 96]

\* a word to decode, then 60 01; and the files at the limits of the constructor
DecodeRoms ==
    { w \o <<96, 1>> : w \in DecodeWords } \cup {LongestRom, OversizedRom, Unreadable}

InitDecode == InitWith(DecodeRoms, {FALSE})
NextDecode == Cycle(MaxDecodeCycles)
SpecDecode == InitDecode /\ [][NextDecode]_vars

\* the opcode words outside the instruction set, by class
UndefinedWord(word) ==
    LET class == word[1] \div 16
        low == word[2] % 16
    IN \/ class = 14 /\ word[2] \notin {158, 161}
       \/ class = 15 /\ word[2] \notin {7, 10, 21, 24, 30, 41, 51, 85, 101}
       \/ class = 8 /\ low \notin (0..7) \cup {14}
       \/ class \in {5, 9} /\ low # 0

\* C14: a cycle that fetches an opcode word outside the instruction set ends
\* in a fault with pc still at the word and the machine otherwise as it was;
\* no cycle runs after a fault.
C14_UndefinedIsFatal ==
    [][ /\ (cycles' = cycles + 1 /\ executed' # <<>> /\ UndefinedWord(executed')) =>
             /\ fault' # "none"
             /\ pc' = pc
             /\ registers' = registers /\ memory' = memory /\ i' = i
             /\ stack' = stack /\ stack_size' = stack_size
        /\ fault # "none" => (cycles' = cycles /\ pc' = pc /\ executed' = executed)
      ]_vars

\* FFFF at 0x200 was fetched and the run ended there: the 60 01 that follows
\* it never ran
C14_Witness ==
    /\ cycles = 1 /\ executed = <<255, 255>> /\ fault = "unreachable"
    /\ pc = ROM_BASE /\ registers[0] = 0
    /\ MemoryAt(memory, ROM_BASE + 2) = 96

\* 8008 and 5001 end the run as well
C14_MathWitness ==
    /\ cycles = 1 /\ executed = <<128, 8>> /\ fault = "explicit_panic" /\ pc = ROM_BASE

C14_SkipWitness ==
    /\ cycles = 1 /\ executed = <<80, 1>> /\ fault = "assertion_failed" /\ pc = ROM_BASE

\* ------------------------------------------------------------------------
\* A timer write of the CPU against a decrement of the ticker thread
\* ------------------------------------------------------------------------
\* the decrements since the CPU's store, less the one that had loaded the
\* timer before the store and stored after it
TicksBegunAfterWrite(log) ==
    IF log.raced /\ log.ticks >= 1 THEN log.ticks - 1 ELSE log.ticks

\* the timer is what the CPU stored, less the decrements begun since; the
\* decrement that straddles the store either counts on the stored value or
\* is dropped
WriteKept(timer, log) ==
    /\ timer <= log.value
    /\ \/ timer = Max(log.value - TicksBegunAfterWrite(log), 0)
       \/ timer = Max(log.value - log.ticks, 0)

\* C15: once the CPU has stored V in a timer and until its next store, the
\* timer never exceeds V and holds max(V - k, 0) after k decrements begun
\* after the store, in every interleaving with the ticker's load and store;
\* a decrement that loaded before the store does not put its stale value
\* minus one over V.
C15_TimerWriteNotLost ==
    /\ WriteKept(sound_timer, timer_log.sound)
    /\ WriteKept(delay_timer, timer_log.delay)

\* what the ticker thread does: it had loaded the sound timer at 1, the CPU
\* stored 3, and the ticker stored 1 - 1 = 0 over the 3
C15_StaleStoreWitness ==
    /\ timer_log.sound = [value |-> 3, ticks |-> 1, raced |-> TRUE]
    /\ sound_timer = 0
    /\ executed = <<240, 24>> /\ cycles = 5

\* and the other way: it had loaded 255, the CPU stored 0, and the ticker
\* stored 254: the timer runs for 254 ticks after the program set it to 0
C15_StaleRaiseWitness ==
    /\ timer_log.sound = [value |-> 0, ticks |-> 1, raced |-> TRUE]
    /\ sound_timer = 254

\* where no ticker thread runs and the main loop ticks between cycles,
\* every store of the CPU is kept
C15_LockstepKeepsWrites ==
    ticker_pc = "absent" => C15_TimerWriteNotLost

\* ------------------------------------------------------------------------
\* The key latch shared with an input thread: the key wait step by step
\* ------------------------------------------------------------------------
\* the opcode at pc is FX0A
AtKeyWait ==
    /\ InMemory(pc) /\ InMemory(pc + 1)
    /\ Fetch(Self)[1] \div 16 = 15 /\ Fetch(Self)[2] = 10

\* a key wait that lets go of the latch between its read and its clear
latch_released_after_read == "free"

\* the guard of the latch lives from lock().unwrap() to drop(mutex)
latch_lock_during_key_wait == "exec"

\* the execution thread holds the latch lock
LatchHeld == blit.at = "key_wait" /\ blit.latch = "exec"

\* execute_opcode up to let value = *mutex of the key wait; it takes the
\* lock of the latch only, whoever holds the lock of the canvas
KeyWaitRead(limit) ==
    /\ fault = "none"
    /\ cycles < limit
    /\ blit = NoBlit
    /\ AtKeyWait
    /\ cycles' = cycles + 1
    /\ executed' = Fetch(Self)
    /\ before' = Snapshot(Self)
    /\ should_increment_pc' = TRUE
    /\ blit' = [at |-> "key_wait", dy |-> 0, collision |-> FALSE,
                value |-> pressed_key, latch |-> latch_lock_during_key_wait]
    /\ UNCHANGED <<memory, registers, stack, stack_size, i, pc, delay_timer, sound_timer,
                   pressed_key, canvas, canvas_poisoned, overflow_checks, fault,
                   canvas_lock, stable_canvas, renderVars, tickerVars, timer_log,
                   key_events, driverVars>>

\* *mutex = None, drop(mutex), and the rest of execute_opcode on the value
\* that was read
KeyWaitClear ==
    /\ blit.at = "key_wait"
    /\ \E m \in {[Self EXCEPT !.pressed_key = blit.value]} :
          \E r \in {key_wait(m, executed[1] % 16)} :
             IF ReturnsEarly(m, executed[1], executed[2]) THEN Becomes(r)
             ELSE Becomes(finish_cycle(r))
    /\ blit' = NoBlit
    /\ UNCHANGED <<cycleVars, canvas_lock, stable_canvas, renderVars, tickerVars,
                   timer_log, key_events, driverVars>>

\* a cycle of an opcode other than the key wait
LatchOtherCycle(limit) == ~AtKeyWait /\ Cycle(limit)

\* the input thread writes the latch under its lock
InputKeyDown == ~LatchHeld /\ KeyDown
InputKeyUp == ~LatchHeld /\ KeyUp

\* Latch scenarios: FX0A, EX9E, FX0A, EXA1
LatchRoms == { <<240 + x, 10, 224 + x, 158, 240 + x, 10, 224 + x, 161>> : x \in {0, 3} }

InitLatch == InitWith(LatchRoms, {FALSE})
NextLatch ==
    \/ LatchOtherCycle(MaxLatchCycles)
    \/ KeyWaitRead(MaxLatchCycles)
    \/ KeyWaitClear
    \/ InputKeyDown
    \/ InputKeyUp
    \/ RenderLock
    \/ RenderRead
SpecLatch == InitLatch /\ [][NextLatch]_vars

\* the step is a write of the input thread
InputWrote == key_events' = key_events + 1

\* the step is the end of a key wait that put the key of the latch in
\* register X and went on to the next opcode
KeyWaitReturned(key) ==
    /\ blit.at = "key_wait" /\ blit'.at = "fetch"
    /\ registers'[executed[1] % 16] = key
    /\ pc' = pc + 2
    /\ fault' = "none"

\* C16: in every interleaving of the input thread's writes with the key
\* wait, a key code in the latch leaves it only by a write of the input
\* thread or by a key wait that returns that code in register X; a key wait
\* that found the latch empty leaves it as the input thread has it; EX9E and
\* EXA1 never change the latch.
C16_KeyLatchAtomic ==
    [][ /\ (pressed_key # None /\ pressed_key' # pressed_key) =>
             \/ InputWrote
             \/ pressed_key' = None /\ KeyWaitReturned(Unwrap(pressed_key))
        /\ RanClass(14) => pressed_key' = pressed_key
      ]_vars

\* key Num4 came down, the first key wait returned 0xC in register 3, then
\* key W came down and EX9E found it different from register 3: the latch
\* still holds 5 and pc advanced by 2 only
C16_Witness ==
    /\ cycles = 2 /\ executed = <<227, 158>> /\ fault = "none"
    /\ registers[3] = 12 /\ pressed_key = Some(5) /\ key_events = 2
    /\ pc = ROM_BASE + 4 /\ blit = NoBlit

\* a key wait is in progress on an empty latch and the input thread waits
C16_HeldWitness ==
    /\ LatchHeld /\ blit.value = None /\ key_events = 1 /\ cycles = 3

\* a renderer held the lock of the canvas all through a key wait, which
\* took key 5 from the latch without waiting for it
C16_CanvasLockedWitness ==
    /\ canvas_lock = "render" /\ frames = 0 /\ cycles = 1 /\ blit = NoBlit
    /\ executed = <<240, 10>> /\ registers[0] = 5 /\ pressed_key = None
    /\ key_events = 1 /\ pc = ROM_BASE + 2 /\ fault = "none"

\* ------------------------------------------------------------------------
\* Call and return as a pair
\* ------------------------------------------------------------------------
\* the address NNN of the opcode word the step executed
OpAddress == (executed'[1] % 16) * 256 + executed'[2]

\* both bytes of a word at this address are in memory, and the word is a
\* call: 2NNN, or a word of class 0 whose second byte is neither 0xE0 nor 0xEE
CallAt(address) ==
    LET byte1 == MemoryAt(memory, address)
        byte2 == MemoryAt(memory, address + 1)
    IN /\ InMemory(address) /\ InMemory(address + 1)
       /\ \/ byte1 \div 16 = 2
          \/ byte1 \div 16 = 0 /\ byte2 \notin {224, 238}

\* C17: a call at address A at depth d below the capacity leaves pc = NNN,
\* depth d + 1 and A + 2 on top of the slots it found; a return at depth
\* d + 1 pops that top into pc, A + 2 with no further increment, and leaves
\* depth d with the slots below as they were, so nested calls return last
\* in, first out.
C17_CallReturnRoundTrip ==
    [][ /\ (RanCall /\ stack_size < STACK_CAPACITY) =>
             /\ pc' = OpAddress
             /\ stack_size' = stack_size + 1
             /\ stack'[stack_size] = pc + 2
             /\ \A k \in 0..(stack_size - 1) : stack'[k] = stack[k]
        /\ (RanReturn /\ stack_size >= 1) =>
             /\ pc' = stack[stack_size - 1]
             /\ CallAt(pc' - 2)
             /\ stack_size' = stack_size - 1
             /\ \A k \in 0..(stack_size' - 1) : stack'[k] = stack[k]
      ]_vars

\* 2204 at 0x200 called 2208 at 0x204, which called 00EE at 0x208: the
\* first return went to 0x206, the second to 0x202
C17_Witness ==
    /\ cycles = 4 /\ executed = <<0, 238>> /\ fault = "none"
    /\ MemoryAt(memory, ROM_BASE) = 34
    /\ pc = ROM_BASE + 2 /\ stack_size = 0
    /\ stack[0] = ROM_BASE + 2 /\ stack[1] = ROM_BASE + 6

\* the call in the last word of memory returned to 0x1000, past the memory
C17_LastWordWitness ==
    /\ cycles = 3 /\ executed = <<0, 238>> /\ fault = "none"
    /\ pc = MEMORY_SIZE /\ CallAt(pc - 2) /\ ~CallAt(pc - 1) /\ ~CallAt(pc)
    /\ stack_size = 1 /\ stack[1] = MEMORY_SIZE

\* the legacy call 0204 at 0x200 returned to 0x202
C17_LegacyWitness ==
    /\ cycles = 2 /\ executed = <<0, 238>> /\ fault = "none"
    /\ MemoryAt(memory, ROM_BASE) = 2
    /\ pc = ROM_BASE + 2 /\ stack_size = 0

\* ------------------------------------------------------------------------
\* Conditional skip scenarios: 6X aa, 6Y bb, then one of 3XNN, 4XNN, 5XY0,
\* 9XY0, EX9E, EXA1, while key events arrive
\* ------------------------------------------------------------------------
\* X with Y the same register and register 1
SkipPairs == { <<x, y>> \in {0, 15} \X {0, 1, 15} : y \in {x, 1} }
\* the key codes of X, W and Num4
SkipValues == {0, 5, 12}
SkipOperands == {5, 7}

\* the skip opcode words on registers X and Y
SkipWords(x, y) ==
    { <<16 * c + x, nn>> : c \in {3, 4}, nn \in {5, 12} }
    \cup { <<16 * c + x, 16 * y>> : c \in {5, 9} }
    \cup { <<224 + x, b>> : b \in {158, 161} }

SkipRoms ==
    UNION { { <<96 + p[1], a, 96 + p[2], b>> \o w : w \in SkipWords(p[1], p[2]) } :
              <<p, a, b>> \in SkipPairs \X SkipValues \X SkipOperands }

InitSkip == InitWith(SkipRoms, {FALSE})
NextSkip ==
    \/ Cycle(MaxSkipCycles)
    \/ KeyDown
    \/ KeyUp
SpecSkip == InitSkip /\ [][NextSkip]_vars

\* the step advances pc by 4 when the predicate holds and by 2 when it does
\* not, and changes nothing else of the machine
SkipsWhen(predicate) ==
    /\ fault' = "none"
    /\ pc' = pc + (IF predicate THEN 4 ELSE 2)
    /\ registers' = registers /\ i' = i
    /\ stack' = stack /\ stack_size' = stack_size
    /\ memory' = memory
    /\ delay_timer' = delay_timer /\ sound_timer' = sound_timer
    /\ canvas' = canvas
    /\ pressed_key' = pressed_key

\* C18: 3XNN (X = NN), 4XNN (X # NN), 5XY0 (X = Y), 9XY0 (X # Y), EX9E (the
\* latch holds the key in register X) and EXA1 (the latch is empty or holds
\* another key) advance pc by 4 when the predicate holds and by 2 when it
\* does not, and leave the registers, I, the stack, memory, the timers, the
\* canvas and the key latch unchanged.
C18_SkipsChangeOnlyPc ==
    [][ /\ RanClass(3) => SkipsWhen(registers[OpX] = executed'[2])
        /\ RanClass(4) => SkipsWhen(registers[OpX] # executed'[2])
        /\ RanOp(5, 0) => SkipsWhen(registers[OpX] = registers[OpY])
        /\ RanOp(9, 0) => SkipsWhen(registers[OpX] # registers[OpY])
        /\ (RanClass(14) /\ executed'[2] = 158) =>
              SkipsWhen(pressed_key = Some(registers[OpX]))
        /\ (RanClass(14) /\ executed'[2] = 161) =>
              SkipsWhen(pressed_key # Some(registers[OpX]))
      ]_vars

\* key Num4 is down and register 15 holds 0xC: EF9E skipped the next word
C18_Witness ==
    /\ cycles = 3 /\ executed = <<239, 158>> /\ fault = "none"
    /\ registers[15] = 12 /\ pressed_key = Some(12)
    /\ pc = ROM_BASE + 8

\* 5010 with registers 0 and 1 both 5 skipped; 9010 on them did not
C18_RegisterWitness ==
    /\ cycles = 3 /\ executed = <<80, 16>> /\ fault = "none"
    /\ registers[0] = 5 /\ registers[1] = 5 /\ pc = ROM_BASE + 8

C18_NoSkipWitness ==
    /\ cycles = 3 /\ executed = <<144, 16>> /\ fault = "none"
    /\ registers[0] = 5 /\ registers[1] = 5 /\ pc = ROM_BASE + 6

\* ------------------------------------------------------------------------
\* The flag register as the destination of a flag-setting operation
\* ------------------------------------------------------------------------
\* the flag and the 8-bit result of the flag-setting sub-op n on the values
\* a of register X and b of register Y
FlagOf(n, a, b) ==
    CASE n = 4 -> IF a + b >= 256 THEN 1 ELSE 0
      [] n = 5 -> IF a >= b THEN 1 ELSE 0
      [] n = 6 -> a % 2
      [] n = 7 -> IF b >= a THEN 1 ELSE 0
      [] n = 14 -> a \div 128

ResultOf(n, a, b) ==
    CASE n = 4 -> (a + b) % 256
      [] n = 5 -> (a - b) % 256
      [] n = 6 -> a \div 2
      [] n = 7 -> (b - a) % 256
      [] n = 14 -> (2 * a) % 256

FlagOps == {4, 5, 6, 7, 14}

\* the step is a cycle that fetched a flag-setting 8XYn
RanFlagOp == RanClass(8) /\ executed'[2] % 16 \in FlagOps

\* C19: after 8XY4, 8XY5, 8XY6, 8XY7 and 8XYE register 15 holds the carry,
\* no-borrow or shifted-out bit, for every X in 0..15, X = 15 included.
C19_FlagAlsoWhenDestination ==
    [][ RanFlagOp =>
          registers'[15] = FlagOf(executed'[2] % 16, registers[OpX], registers[OpY])
      ]_vars

\* what execute_math does: the flag is set inside the arm and the result is
\* stored after the match, so with X = 15 register 15 holds the result, and
\* with any other X it holds the flag
C19_ResultOverFlag ==
    [][ RanFlagOp =>
          registers'[15] =
             (IF OpX = 15
              THEN ResultOf(executed'[2] % 16, registers[OpX], registers[OpY])
              ELSE FlagOf(executed'[2] % 16, registers[OpX], registers[OpY]))
      ]_vars

\* 8F04 with register 15 = 127 and register 0 = 128: no carry, and register
\* 15 holds the sum 255
C19_ResultWitness ==
    /\ cycles = 3 /\ executed = <<143, 4>> /\ fault = "none"
    /\ before.registers[15] = 127 /\ registers[0] = 128
    /\ registers[15] = 255

\* ------------------------------------------------------------------------
\* The driver loop: a tick of both timers, then the cycles of one frame
\* ------------------------------------------------------------------------
\* let instructions_per_frame = frequency / REFRESH_RATE, a u32 division
instructions_per_frame == frequency \div REFRESH_RATE

\* the top of 'main: loop: both timers tick.  The frames are counted up to
\* MaxDriverFrames, and run on uncounted after that.
DriverFrame ==
    /\ ticker_pc = "absent"
    /\ fault = "none"
    /\ driver_pc = "top"
    /\ delay_timer' = saturating_sub_1(delay_timer)
    /\ sound_timer' = saturating_sub_1(sound_timer)
    /\ frame_start' = cycles
    /\ driver_pc' = "cycles"
    /\ IF ticks < MaxDriverFrames
       THEN /\ ticks' = ticks + 1
            /\ timer_log' = [sound |-> Ticked(timer_log.sound),
                             delay |-> Ticked(timer_log.delay)]
       ELSE UNCHANGED <<ticks, timer_log>>
    /\ UNCHANGED <<memory, registers, stack, stack_size, i, pc, pressed_key,
                   should_increment_pc, canvas, canvas_poisoned, overflow_checks, fault,
                   cycleVars, blitVars, renderVars, ticker_pc, ticker_value, key_events,
                   frequency>>

\* one iteration of for _ in 0..instructions_per_frame
DriverCycle ==
    /\ driver_pc = "cycles"
    /\ cycles - frame_start < instructions_per_frame
    /\ Cycle(MaxDriverCycles)

\* the rest of the frame up to canvas.present(): the sound device and the
\* rectangles of the canvas
DriverPresent ==
    /\ fault = "none"
    /\ driver_pc = "cycles"
    /\ cycles - frame_start >= instructions_per_frame
    /\ driver_pc' = "events"
    /\ UNCHANGED <<machineVars, cycleVars, blitVars, renderVars, tickerVars, timer_log,
                   key_events, frequency, frame_start>>

\* an event of the rest of the frame time: Event::KeyDown that is no repeat
DriverKeyDown == driver_pc = "events" /\ KeyDown

\* Event::KeyUp
DriverKeyUp == driver_pc = "events" /\ KeyUp

\* Event::Quit, or Event::KeyDown of Escape: break 'main, and main returns
DriverQuit ==
    /\ driver_pc = "events"
    /\ driver_pc' = "quit"
    /\ UNCHANGED <<machineVars, cycleVars, blitVars, renderVars, tickerVars, timer_log,
                   key_events, frequency, frame_start>>

\* now.elapsed() reaches FRAME_TIME: the loop goes to its next iteration
DriverFrameEnd ==
    /\ driver_pc = "events"
    /\ driver_pc' = "top"
    /\ UNCHANGED <<machineVars, cycleVars, blitVars, renderVars, tickerVars, timer_log,
                   key_events, frequency, frame_start>>

\* the rates the driver is started with, from 1 instruction per second on
Frequencies == {1, 59, 60, 180}

\* Driver scenarios: 60 FF, F015, F018, 1206 (a jump to itself), and
\* F00A, 1200: wait for a key, again and again
DriverRoms == { <<96, 255, 240, 21, 240, 24, 18, 6>>, <<240, 10, 18, 0>> }

InitDriver == InitLockstep(DriverRoms, {FALSE}, Frequencies)
NextDriver ==
    \/ DriverFrame
    \/ DriverCycle
    \/ DriverPresent
    \/ DriverKeyDown
    \/ DriverKeyUp
    \/ DriverQuit
    \/ DriverFrameEnd
SpecDriver == InitDriver /\ [][NextDriver]_vars
\* the loop never blocks: a step that is possible is taken
SpecDriverLive == SpecDriver /\ WF_vars(NextDriver)

\* C20: at every rate of at least 1 instruction per second the driver
\* executes opcodes as long as no fault occurs and the user does not quit:
\* it does not go through frame after frame for ever, ticking the timers,
\* without ever executing one.
C20_DriverProgress == <>(fault # "none" \/ driver_pc = "quit" \/ cycles >= 1)

\* what the driver does: each frame runs frequency div 60 cycles, so below
\* 60 instructions per second it runs none at all
C20_WholeFramesOnly ==
    /\ cycles - frame_start <= instructions_per_frame
    /\ ticks < MaxDriverFrames => cycles <= ticks * instructions_per_frame
    /\ frequency < REFRESH_RATE => cycles = 0

\* at 59 instructions per second the driver went through the frames of a
\* whole second, keys were pressed and released meanwhile, and it is at the
\* top of the next frame: it executed nothing
C20_StalledWitness ==
    /\ frequency = 59 /\ ticks = MaxDriverFrames /\ driver_pc = "top"
    /\ key_events = MaxKeyEvents /\ pressed_key = None
    /\ cycles = 0 /\ pc = ROM_BASE

\* from 60 instructions per second on the driver does execute opcodes
C20_ProgressFromSixty == <>(frequency < REFRESH_RATE \/ cycles >= 1)

\* both timers are decremented once at the top of every frame, at every
\* rate, and change otherwise only when the program stores in them
C20_TimersTickOncePerFrame ==
    [][ /\ (driver_pc = "top" /\ driver_pc' = "cycles") =>
             /\ delay_timer' = Max(delay_timer - 1, 0)
             /\ sound_timer' = Max(sound_timer - 1, 0)
        /\ (driver_pc = "cycles" /\ delay_timer' # delay_timer) =>
             cycles' = cycles + 1 /\ executed' = <<240, 21>>
        /\ (driver_pc = "cycles" /\ sound_timer' # sound_timer) =>
             cycles' = cycles + 1 /\ executed' = <<240, 24>>
        /\ driver_pc \notin {"top", "cycles"} =>
             delay_timer' = delay_timer /\ sound_timer' = sound_timer
        /\ driver_pc' = "events" => cycles - frame_start = instructions_per_frame
      ]_vars

\* at 180 instructions per second the program stored 255 in both timers in
\* the first frame, and the three frames since took them to 252
C20_TimerWitness ==
    /\ frequency = 180 /\ ticks = 4 /\ delay_timer = 252 /\ sound_timer = 252
    /\ cycles - frame_start = instructions_per_frame

\* at 60 instructions per second the key wait of the first frame found no
\* key, W went down in the events of that frame, and the key wait of the
\* second frame took it
C20_KeyWitness ==
    /\ frequency = 60 /\ ticks = 2 /\ cycles = 2 /\ executed = <<240, 10>>
    /\ registers[0] = 5 /\ pressed_key = None /\ key_events = 1 /\ pc = ROM_BASE + 2

====
